---- MODULE Spec2Model ----
(***************************************************************************)
(* Model of src/api/client.py: a client of a remote poll service with four *)
(* module-level functions, register_user, login_user, create_poll and      *)
(* get_polls.  Each function builds one call to the requests library,      *)
(* runs response.raise_for_status() and response.json() inside a try, and  *)
(* maps HTTPError and RequestException to a return of None.                *)
(*                                                                         *)
(* The program's state is the module namespace (the global BASE_URL).      *)
(* The environment is the requests library together with the remote        *)
(* server: it answers a call either by raising a transport exception or    *)
(* with a response (status code, body text).  Python values are tagged     *)
(* records [t |-> <type name>, <field of that type> |-> <value>].          *)
(***************************************************************************)
EXTENDS Integers, Sequences, FiniteSets, TLC

VARIABLES
  module,       \* the module namespace: global name -> value
  lib,          \* the installed requests release line (fixed for a run)
  inflight,     \* the call the caller has made and that has not ended yet
  last,         \* record of the call that ended last (history variable)
  issued,       \* token strings that login_user has returned to the caller
  prevFailure,  \* the failed call a repeated call is compared with
  registered    \* usernames the remote service has registered

vars == <<module, lib, inflight, last, issued, prevFailure, registered>>

----------------------------------------------------------------------------
(* Bounds and input sets *)

MaxSkip == 1

SkipValues == -1 .. MaxSkip

Usernames == {"", "alice"}

Passwords == {"", "pw"}

Questions == {"", "q1"}

OptionLists == {<<>>, <<"b", "a">>}

Tokens == {"", "tok"}

----------------------------------------------------------------------------
(* Python values *)

PyNone == [t |-> "NoneType"]

PyStr(s) == [t |-> "str", s |-> s]

PyInt(i) == [t |-> "int", i |-> i]

PyList(s) == [t |-> "list", items |-> s]

PyDict(f) == [t |-> "dict", d |-> f]

EmptyDict == PyDict([k \in {} |-> PyNone])

\* How a function call ends: by returning a value or by an exception that
\* leaves the function.
Return(v) == [k |-> "return", v |-> v]

Raise(e) == [k |-> "raise", exc |-> e]

\* isinstance(exc, cls) for the exception classes the program meets.
\* requests.exceptions: HTTPError, ConnectionError, Timeout and (from release
\* 2.27 on) JSONDecodeError derive from RequestException; the builtins
\* ValueError and AttributeError do not.
IsInstance(exc, cls) ==
  \/ exc = cls
  \/ /\ cls = "RequestException"
     /\ exc \in {"HTTPError", "ConnectionError", "Timeout", "JSONDecodeError"}

----------------------------------------------------------------------------
(* The environment: the remote server's bodies and the library's outcomes *)

UserRecord(u) == PyDict([username |-> PyStr(u)])

UserText(u) == "{\"username\": \"" \o u \o "\"}"

\* JSON documents and the values they denote.
JsonTable ==
  { [text |-> "null", data |-> PyNone],
    [text |-> "{}", data |-> EmptyDict],
    [text |-> "[]", data |-> PyList(<<>>)],
    [text |-> "7", data |-> PyInt(7)],
    [text |-> "\"tok\"", data |-> PyStr("tok")],
    [text |-> "{\"access_token\": \"\"}",
     data |-> PyDict([access_token |-> PyStr("")])],
    [text |-> "{\"access_token\": \"tok\"}",
     data |-> PyDict([access_token |-> PyStr("tok")])],
    [text |-> "{\"question\": \"q1\", \"id\": 7}",
     data |-> PyDict([question |-> PyStr("q1"), id |-> PyInt(7)])],
    [text |-> "[{\"question\": \"q1\", \"id\": 7}]",
     data |-> PyList(<<PyDict([question |-> PyStr("q1"), id |-> PyInt(7)])>>)],
    [text |-> "{\"detail\": \"error\"}",
     data |-> PyDict([detail |-> PyStr("error")])] }
  \cup { [text |-> UserText(u), data |-> UserRecord(u)] : u \in Usernames }

\* Bodies that are not JSON documents.
GarbageTexts == {"", "<html>"}

BodyTexts == { e.text : e \in JsonTable } \cup GarbageTexts

Statuses == {101, 200, 201, 204, 300, 404, 409, 500, 600}

\* Statuses whose response carries no body: the library reads none for a
\* 1xx or a 204 response.
NoBodyStatuses == {101, 204}

TransportErrors == {"ConnectionError", "Timeout"}

\* What requests.post / requests.get does with a call: raise a transport
\* exception (no response received) or hand back a response.
Outcomes ==
  { [kind |-> "exc", exc |-> e, status |-> 0, text |-> ""] : e \in TransportErrors }
  \cup { [kind |-> "response", exc |-> "", status |-> s, text |-> b] :
           s \in Statuses \ NoBodyStatuses, b \in BodyTexts }
  \cup { [kind |-> "response", exc |-> "", status |-> s, text |-> ""] :
           s \in NoBodyStatuses }

LibReleases == {"requests>=2.27", "requests<2.27"}

NoCall == [op |-> "none"]

----------------------------------------------------------------------------
(* The requests library, as the program uses it *)

\* response.raise_for_status(): HTTPError for a client or server error
\* status, nothing otherwise.
raise_for_status(status) ==
  IF 400 <= status /\ status < 600 THEN Raise("HTTPError") ELSE Return(PyNone)

\* response.json(): the decoded body, or the decoding error of the installed
\* release (a RequestException subclass from 2.27 on, a plain ValueError
\* before).
json(text, release) ==
  IF \E e \in JsonTable : e.text = text
  THEN Return((CHOOSE e \in JsonTable : e.text = text).data)
  ELSE IF release = "requests>=2.27" THEN Raise("JSONDecodeError")
       ELSE Raise("ValueError")

\* value.get(key): dict.get with default None; any other decoded JSON value
\* (list, str, int, None) has no attribute get.
get(value, key) ==
  IF value.t = "dict"
  THEN IF key \in DOMAIN value.d THEN Return(value.d[key]) ELSE Return(PyNone)
  ELSE Raise("AttributeError")

----------------------------------------------------------------------------
(* src/api/client.py *)

BASE_URL == "http://localhost:8000"

\* The module namespace after import.
ModuleInit == [BASE_URL |-> BASE_URL]

\* Mutant: the RequestException clause is missing.
except_clauses_http_only(tried) ==
  IF tried.k = "return" THEN tried
  ELSE IF IsInstance(tried.exc, "HTTPError") THEN Return(PyNone)
  ELSE tried

\* Mutant: the HTTPError clause returns the error text instead of None.
except_clauses_error_text(tried) ==
  IF tried.k = "return" THEN tried
  ELSE IF IsInstance(tried.exc, "HTTPError") THEN Return(PyStr("HTTPError"))
  ELSE IF IsInstance(tried.exc, "RequestException") THEN Return(PyNone)
  ELSE tried

\* The two except clauses every function ends with: HTTPError first, then
\* RequestException; both print and return None.  Any other exception leaves
\* the function.
except_clauses(tried) ==
  IF tried.k = "return" THEN tried
  ELSE IF IsInstance(tried.exc, "HTTPError") THEN Return(PyNone)
  ELSE IF IsInstance(tried.exc, "RequestException") THEN Return(PyNone)
  ELSE tried

\* Which clause, if any, ended the call.
handler(tried) ==
  IF tried.k = "return" THEN "none"
  ELSE IF IsInstance(tried.exc, "HTTPError") THEN "HTTPError"
  ELSE IF IsInstance(tried.exc, "RequestException") THEN "RequestException"
  ELSE "uncaught"

\* Mutant: the try body unwraps a "data" field of the decoded body.
try_json_unwrap(outcome, release) ==
  IF outcome.kind = "exc" THEN Raise(outcome.exc)
  ELSE IF raise_for_status(outcome.status).k = "raise"
       THEN raise_for_status(outcome.status)
       ELSE IF json(outcome.text, release).k = "raise"
            THEN json(outcome.text, release)
            ELSE get(json(outcome.text, release).v, "data")

\* The try body after the library call: raise_for_status(), then
\* return response.json().
try_json(outcome, release) ==
  IF outcome.kind = "exc" THEN Raise(outcome.exc)
  ELSE IF raise_for_status(outcome.status).k = "raise"
       THEN raise_for_status(outcome.status)
       ELSE json(outcome.text, release)

\* login_user's try body: return response.json().get("access_token").
try_login(outcome, release) ==
  IF outcome.kind = "exc" THEN Raise(outcome.exc)
  ELSE IF raise_for_status(outcome.status).k = "raise"
       THEN raise_for_status(outcome.status)
       ELSE IF json(outcome.text, release).k = "raise"
            THEN json(outcome.text, release)
            ELSE get(json(outcome.text, release).v, "access_token")

register_user_request(username, password, g) ==
  [fn |-> "post", url |-> g.BASE_URL \o "/register",
   kwargs |-> [json |-> [username |-> username, password |-> password]]]

\* Mutant: login sends its payload as JSON, like register.
login_user_request_json(username, password, g) ==
  [fn |-> "post", url |-> g.BASE_URL \o "/login",
   kwargs |-> [json |-> [username |-> username, password |-> password]]]

login_user_request(username, password, g) ==
  [fn |-> "post", url |-> g.BASE_URL \o "/login",
   kwargs |-> [data |-> [username |-> username, password |-> password]]]

create_poll_request(question, options, token, g) ==
  [fn |-> "post", url |-> g.BASE_URL \o "/polls",
   kwargs |-> [headers |-> [Authorization |-> "Bearer " \o token],
               json |-> [question |-> question, options |-> options]]]

get_polls_request(skip, limit, g) ==
  [fn |-> "get",
   url |-> g.BASE_URL \o "/polls?skip=" \o ToString(skip)
             \o "&limit=" \o ToString(limit),
   kwargs |-> [k \in {} |-> PyNone]]

\* Mutant: register_user without response.raise_for_status().
register_user_no_raise(username, password, g, release, outcome) ==
  LET tried == IF outcome.kind = "exc" THEN Raise(outcome.exc)
               ELSE json(outcome.text, release)
  IN [sent |-> <<[fn |-> "post", url |-> g.BASE_URL \o "/register",
                  kwargs |-> [json |-> [username |-> username,
                                        password |-> password]]]>>,
      result |-> except_clauses(tried),
      handler |-> handler(tried),
      globals |-> g]

\* Mutant: create_poll rejects an empty option list without a request.
create_poll_validating(question, options, token, g, release, outcome) ==
  IF options = <<>>
  THEN [sent |-> <<>>, result |-> Return(PyNone), handler |-> "none",
        globals |-> g]
  ELSE [sent |-> <<create_poll_request(question, options, token, g)>>,
        result |-> except_clauses(try_json(outcome, release)),
        handler |-> handler(try_json(outcome, release)),
        globals |-> g]

\* Mutant: create_poll keeps the first token it is given in a module global
\* and sends that one from then on.
create_poll_cached_token(question, options, token, g, release, outcome) ==
  LET used == IF "token" \in DOMAIN g THEN g.token ELSE token
  IN [sent |-> <<create_poll_request(question, options, used, g)>>,
      result |-> except_clauses(try_json(outcome, release)),
      handler |-> handler(try_json(outcome, release)),
      globals |-> [BASE_URL |-> g.BASE_URL, token |-> used]]

\* A call of a function, given the module namespace g, the installed
\* release and what the library does with the one request: the library
\* calls made, how the call ends, which except clause ended it, and the
\* module namespace afterwards.
register_user(username, password, g, release, outcome) ==
  [sent |-> <<register_user_request(username, password, g)>>,
   result |-> except_clauses(try_json(outcome, release)),
   handler |-> handler(try_json(outcome, release)),
   globals |-> g]

login_user(username, password, g, release, outcome) ==
  [sent |-> <<login_user_request(username, password, g)>>,
   result |-> except_clauses(try_login(outcome, release)),
   handler |-> handler(try_login(outcome, release)),
   globals |-> g]

create_poll(question, options, token, g, release, outcome) ==
  [sent |-> <<create_poll_request(question, options, token, g)>>,
   result |-> except_clauses(try_json(outcome, release)),
   handler |-> handler(try_json(outcome, release)),
   globals |-> g]

get_polls(skip, limit, g, release, outcome) ==
  [sent |-> <<get_polls_request(skip, limit, g)>>,
   result |-> except_clauses(try_json(outcome, release)),
   handler |-> handler(try_json(outcome, release)),
   globals |-> g]

\* Dispatch on a recorded call.
Invoke(op, args, g, release, outcome) ==
  CASE op = "register_user" ->
         register_user(args.username, args.password, g, release, outcome)
    [] op = "login_user" ->
         login_user(args.username, args.password, g, release, outcome)
    [] op = "create_poll" ->
         create_poll(args.question, args.options, args.token, g, release, outcome)
    [] op = "get_polls" ->
         get_polls(args.skip, args.limit, g, release, outcome)

----------------------------------------------------------------------------
(* The state machine: a caller makes calls one after another.  A call is  *)
(* two steps: the caller invokes a function with its arguments, and the    *)
(* function runs to its end against what the library does with its         *)
(* request (the functions block in requests.post / requests.get).          *)

Init ==
  /\ module = ModuleInit
  /\ lib \in LibReleases
  /\ inflight = NoCall
  /\ last = NoCall
  /\ issued = {}
  /\ prevFailure = NoCall
  /\ registered = {}

RegisterArgs == [username : Usernames, password : Passwords]

CreateArgs == [question : Questions, options : OptionLists, token : Tokens]

PollsArgs == [skip : SkipValues, limit : SkipValues]

\* The caller invokes op(args); single-threaded, so only when no call runs.
Begin(op, args) ==
  /\ inflight = NoCall
  /\ inflight' = [op |-> op, args |-> args]
  /\ last' = NoCall
  /\ prevFailure' = NoCall
  /\ UNCHANGED <<module, lib, issued>>

RegisterUser ==
  \E a \in RegisterArgs : Begin("register_user", a) /\ UNCHANGED registered

LoginUser ==
  \E a \in RegisterArgs : Begin("login_user", a) /\ UNCHANGED registered

CreatePoll ==
  \E a \in CreateArgs : Begin("create_poll", a) /\ UNCHANGED registered

GetPolls ==
  \E a \in PollsArgs : Begin("get_polls", a) /\ UNCHANGED registered

\* The token strings the caller holds after a call has ended.
Held(op, result) ==
  IF op = "login_user" /\ result.k = "return" /\ result.v.t = "str"
  THEN issued \cup {result.v.s}
  ELSE issued

\* The running function ends, the library having done `outcome` with its
\* request: the history record of the call and the module namespace after it.
Finish(outcome) ==
  LET c == Invoke(inflight.op, inflight.args, module, lib, outcome)
  IN /\ inflight # NoCall
     /\ last' = [op |-> inflight.op, args |-> inflight.args,
                 outcome |-> outcome, sent |-> c.sent, result |-> c.result,
                 handler |-> c.handler]
     /\ module' = c.globals
     /\ issued' = Held(inflight.op, c.result)
     /\ inflight' = NoCall
     /\ UNCHANGED <<lib, prevFailure>>

\* An arbitrary network and server.
Answer == \E o \in Outcomes : Finish(o) /\ UNCHANGED registered

Next == RegisterUser \/ LoginUser \/ CreatePoll \/ GetPolls \/ Answer

Spec == Init /\ [][Next]_vars

----------------------------------------------------------------------------
(* The caller repeats a call with the same arguments *)

\* How a call failed: the library raised (no response), or the status made
\* raise_for_status() raise HTTPError.
FailureKind(call) ==
  IF call.outcome.kind = "exc" THEN "transport"
  ELSE IF call.handler = "HTTPError" THEN "http"
  ELSE "none"

Repeat ==
  /\ inflight = NoCall
  /\ last # NoCall
  /\ inflight' = [op |-> last.op, args |-> last.args]
  /\ prevFailure' = IF FailureKind(last) # "none"
                    THEN [op |-> last.op, args |-> last.args,
                          kind |-> FailureKind(last), result |-> last.result]
                    ELSE prevFailure
  /\ last' = NoCall
  /\ UNCHANGED <<module, lib, issued, registered>>

NextRepeat == Next \/ Repeat

SpecRepeat == Init /\ [][NextRepeat]_vars

----------------------------------------------------------------------------
(* A remote service that keeps the registered usernames *)

SuccessStatuses == {200, 201}

\* The service's answer to POST /register for username u.
ServiceRegister(u) ==
  IF u \in registered
  THEN {[kind |-> "response", exc |-> "", status |-> 409,
         text |-> "{\"detail\": \"error\"}"]}
  ELSE {[kind |-> "response", exc |-> "", status |-> s, text |-> UserText(u)] :
          s \in SuccessStatuses}

ServiceAnswerRegister ==
  /\ inflight # NoCall
  /\ inflight.op = "register_user"
  /\ \E o \in ServiceRegister(inflight.args.username) : Finish(o)
  /\ registered' = registered \cup {inflight.args.username}

ServiceAnswerOther ==
  /\ inflight # NoCall
  /\ inflight.op # "register_user"
  /\ Answer

NextService ==
  \/ RegisterUser \/ LoginUser \/ CreatePoll \/ GetPolls
  \/ ServiceAnswerRegister \/ ServiceAnswerOther

SpecService == Init /\ [][NextService]_vars

----------------------------------------------------------------------------
(* Properties *)

Ended == last # NoCall

GotResponse == Ended /\ last.outcome.kind = "response"

TransportFailed == Ended /\ last.outcome.kind = "exc"

Success2xx == GotResponse /\ last.outcome.status \in 200..299

ReturnedNone == Ended /\ last.result = Return(PyNone)

\* C1: in each of the four functions, a call whose request fails at
\* transport level (the library raises, no response is received) returns
\* None, and no exception leaves the function.
C1_TransportFailureReturnsNone ==
  TransportFailed => last.result = Return(PyNone)

C1_Witness ==
  /\ TransportFailed
  /\ last.op = "get_polls"
  /\ last.outcome.exc = "Timeout"
  /\ last.handler = "RequestException"
  /\ ReturnedNone

\* C2 (as claimed): a call whose request completes with any status outside
\* 200..299 returns None.
C2_Non2xxReturnsNone ==
  (GotResponse /\ last.outcome.status \notin 200..299) => ReturnedNone

C4_SuccessNeverReturnsNone ==
  Success2xx =>
    /\ last.result.k = "return"
    /\ last.result.v # PyNone
    /\ last.op = "login_user" =>
         (last.result.v.t = "str" /\ last.result.v.s # "")

\* C5: every call makes exactly one call of requests.post / requests.get,
\* whatever its arguments (empty strings, empty option list, negative
\* skip or limit) and however the request ends (no retry).
C5_ExactlyOneRequest ==
  Ended => Len(last.sent) = 1

C5_Witness ==
  /\ TransportFailed
  /\ last.op = "create_poll"
  /\ last.args.question = ""
  /\ last.args.options = <<>>
  /\ last.args.token = ""
  /\ Len(last.sent) = 1

\* C6: no call changes the module namespace, and a call made after any
\* sequence of calls sends the request and gives the result that the same
\* call with the same outcome gives in a freshly imported module; so
\* create_poll sends the token it is passed, never one login_user returned.
C6_CallsAreStateless ==
  /\ module = ModuleInit
  /\ Ended =>
       LET fresh == Invoke(last.op, last.args, ModuleInit, lib, last.outcome)
       IN /\ last.sent = fresh.sent
          /\ last.result = fresh.result

C6_Witness ==
  /\ Ended
  /\ issued = {"tok"}
  /\ last.op = "create_poll"
  /\ last.args.token = ""
  /\ last.sent[1].kwargs.headers.Authorization = "Bearer "
  /\ module = ModuleInit

\* Decimal rendering of an integer, digit by digit.
Digit(d) ==
  CASE d = 0 -> "0" [] d = 1 -> "1" [] d = 2 -> "2" [] d = 3 -> "3"
    [] d = 4 -> "4" [] d = 5 -> "5" [] d = 6 -> "6" [] d = 7 -> "7"
    [] d = 8 -> "8" [] d = 9 -> "9"

RECURSIVE Digits(_)
Digits(n) == IF n < 10 THEN Digit(n) ELSE Digits(n \div 10) \o Digit(n % 10)

Decimal(n) == IF n < 0 THEN "-" \o Digits(-n) ELSE Digits(n)

\* C7: the request of each function is the one of the interface table:
\* register_user POST /register with JSON {username, password};
\* login_user POST /login with the same fields as form data, not JSON;
\* create_poll POST /polls with JSON {question, options}, options in the
\* caller's order, and Authorization "Bearer " + token; get_polls
\* GET /polls?skip=<skip>&limit=<limit> with no body.  Only create_poll
\* passes headers.
C7_RequestMatchesInterface ==
  Ended =>
    /\ Len(last.sent) = 1
    /\ LET r == last.sent[1]
           a == last.args
       IN CASE last.op = "register_user" ->
                 /\ r.fn = "post"
                 /\ r.url = "http://localhost:8000/register"
                 /\ DOMAIN r.kwargs = {"json"}
                 /\ r.kwargs.json =
                      [username |-> a.username, password |-> a.password]
            [] last.op = "login_user" ->
                 /\ r.fn = "post"
                 /\ r.url = "http://localhost:8000/login"
                 /\ DOMAIN r.kwargs = {"data"}
                 /\ r.kwargs.data =
                      [username |-> a.username, password |-> a.password]
            [] last.op = "create_poll" ->
                 /\ r.fn = "post"
                 /\ r.url = "http://localhost:8000/polls"
                 /\ DOMAIN r.kwargs = {"json", "headers"}
                 /\ r.kwargs.json =
                      [question |-> a.question, options |-> a.options]
                 /\ DOMAIN r.kwargs.headers = {"Authorization"}
                 /\ r.kwargs.headers.Authorization = "Bearer " \o a.token
            [] last.op = "get_polls" ->
                 /\ r.fn = "get"
                 /\ r.url = "http://localhost:8000/polls?skip="
                             \o Decimal(a.skip) \o "&limit=" \o Decimal(a.limit)
                 /\ DOMAIN r.kwargs = {}

C7_Witness ==
  /\ Ended
  /\ last.op = "login_user"
  /\ last.args = [username |-> "alice", password |-> "pw"]
  /\ DOMAIN last.sent[1].kwargs = {"data"}
  /\ last.sent[1].url = "http://localhost:8000/login"

\* C8: when the request completes with a 2xx status and a JSON body,
\* register_user, create_poll and get_polls return the decoded body as it
\* is, and login_user returns the value of the body's access_token field;
\* a poll record that echoes the submitted question is returned with it.
C8_ReturnsServerData ==
  (Success2xx /\ json(last.outcome.text, lib).k = "return") =>
    LET body == json(last.outcome.text, lib).v
    IN IF last.op = "login_user"
       THEN (body.t = "dict" /\ "access_token" \in DOMAIN body.d) =>
              last.result = Return(body.d.access_token)
       ELSE /\ last.result = Return(body)
            /\ ( /\ last.op = "create_poll"
                 /\ body.t = "dict"
                 /\ "question" \in DOMAIN body.d
                 /\ body.d.question = PyStr(last.args.question) )
               => last.result.v.d.question = PyStr(last.args.question)

C8_Witness ==
  /\ Success2xx
  /\ last.op = "create_poll"
  /\ last.args.question = "q1"
  /\ last.outcome.text = "{\"question\": \"q1\", \"id\": 7}"
  /\ last.result.k = "return"
  /\ last.result.v.d.question = PyStr("q1")

NonEmptyRecord(r) ==
  /\ r.k = "return"
  /\ r.v.t = "dict"
  /\ DOMAIN r.v.d # {}

\* C9: against the service, a register_user call for a username that is
\* not registered returns a non-empty record and registers the name; a
\* call for a registered username returns None and leaves the set of
\* registered usernames as it was.
C9_RegisterOnceThenConflict ==
  [][ (inflight.op = "register_user" /\ inflight' = NoCall) =>
        IF inflight.args.username \in registered
        THEN /\ last'.result = Return(PyNone)
             /\ registered' = registered
        ELSE /\ NonEmptyRecord(last'.result)
             /\ registered' = registered \cup {inflight.args.username} ]_vars

C9_Witness ==
  /\ Ended
  /\ last.op = "register_user"
  /\ last.args.username \in registered
  /\ last.outcome.status = 409
  /\ ReturnedNone

\* C10 (as claimed): whatever response the server sends, the call ends by
\* returning a value, and for a 2xx response whose body is not usable
\* (not JSON, or for login_user not a mapping) that value is None.
C10_NoExceptionForAnyResponse ==
  GotResponse =>
    /\ last.result.k = "return"
    /\ ( /\ Success2xx
         /\ \/ json(last.outcome.text, lib).k = "raise"
            \/ /\ last.op = "login_user"
               /\ json(last.outcome.text, lib).v.t # "dict" )
       => ReturnedNone

====
